---- MODULE Spec2Model ----
(***************************************************************************)
(* Model of lib-zx-sna (src/src/lib.rs): the decoder of ZX Spectrum .sna   *)
(* snapshots (TryFrom<Vec<u8>> for Snapshot) and the paged memory model    *)
(* (peek, poke, peek_word, poke_word, write_0x7ffd, bank_peek, bank_poke,  *)
(* bank_peek_word, bank_poke_word).                                        *)
(*                                                                         *)
(* Scaling.  A bank of the program holds MEM_16K = 16384 bytes and a       *)
(* logical address is a u16.  The model keeps the structure of the address *)
(* space (four windows of one bank each, the lowest one unmapped) and      *)
(* scales the bank to BankLen bytes:                                       *)
(*     0x4000          is  MEM_16K                                         *)
(*     address & 0x3FFF is  address % MEM_16K                              *)
(*     address >> 14    is  address \div MEM_16K                           *)
(*     0xFFFF (u16::MAX) is U16_MAX = 4 * MEM_16K - 1                      *)
(*     49179            is  HEADER_SIZE + MEM_48K                          *)
(* Bytes are full u8 values, the 27-byte header, the 4-byte extension, the *)
(* bank counts (3 and 8) and the 0x07 paging mask are the program's own.   *)
(*                                                                         *)
(* Vec<u8>, Vec<Vec<u8>> and [u8; 3] are functions with domain 0..len-1,   *)
(* Option<T> is a sequence of length 0 (None) or 1 (Some).  A panic is a   *)
(* result tagged "panic" that carries the snapshot as it was at the moment *)
(* of the panic.                                                           *)
(***************************************************************************)
EXTENDS Integers, Sequences, FiniteSets, TLC

VARIABLES bin, pc, result, snap, hist

vars == <<bin, pc, result, snap, hist>>

(***************************************************************************)
(* Bounds of the model.                                                    *)
(***************************************************************************)
\* bytes per bank in the model (the program's banks hold 16384)
BankLen == 2

\* memory-model operations applied to one snapshot
MaxOps == 2

(***************************************************************************)
(* Constants of the program.                                               *)
(***************************************************************************)
MEM_16K == BankLen

MEM_48K == 3 * MEM_16K

\* std::mem::size_of::<SnapshotHeader>() of the packed struct
HEADER_SIZE == 27

\* std::mem::size_of::<SnapshotExtension>() of the packed struct
EXTENSION_SIZE == 4

U16_MAX == 4 * MEM_16K - 1

U8 == 0..255

\* index of the first extension byte: the literal 49179 of the source
EXT_OFFSET == HEADER_SIZE + MEM_48K

(***************************************************************************)
(* Vec helpers.                                                            *)
(***************************************************************************)
VecLen(v) == Cardinality(DOMAIN v)

\* &bin[lo..hi], defined when lo <= hi <= bin.len(); it panics otherwise
SliceOk(v, lo, hi) == lo <= hi /\ hi <= VecLen(v)

Slice(v, lo, hi) == [i \in 0..(hi - lo - 1) |-> v[lo + i]]

\* vec![0u8; MEM_16K]
ZeroBank == [o \in 0..(MEM_16K - 1) |-> 0]

from_le_bytes(lo, hi) == lo + 256 * hi

(***************************************************************************)
(* Snapshot and its Default.                                               *)
(***************************************************************************)
SnapshotHeaderDefault ==
    [i |-> 0, hl_prime |-> 0, de_prime |-> 0, bc_prime |-> 0, af_prime |-> 0,
     hl |-> 0, de |-> 0, bc |-> 0, iy |-> 0, ix |-> 0, interrupt |-> 0,
     r |-> 0, af |-> 0, sp |-> 0, int_mode |-> 0, border_color |-> 0]

SnapshotDefault ==
    [snapshot_type |-> "Snapshot48",
     header |-> SnapshotHeaderDefault,
     extension |-> <<>>,
     banks |-> <<>>,
     mapping |-> [s \in 0..2 |-> 0]]

\* the header literal of try_from: fixed little-endian fields at offsets 0..26
ReadHeader(b) ==
    [i |-> b[0],
     hl_prime |-> from_le_bytes(b[1], b[2]),
     de_prime |-> from_le_bytes(b[3], b[4]),
     bc_prime |-> from_le_bytes(b[5], b[6]),
     af_prime |-> from_le_bytes(b[7], b[8]),
     hl |-> from_le_bytes(b[9], b[10]),
     de |-> from_le_bytes(b[11], b[12]),
     bc |-> from_le_bytes(b[13], b[14]),
     iy |-> from_le_bytes(b[15], b[16]),
     ix |-> from_le_bytes(b[17], b[18]),
     interrupt |-> b[19],
     r |-> b[20],
     af |-> from_le_bytes(b[21], b[22]),
     sp |-> from_le_bytes(b[23], b[24]),
     int_mode |-> b[25],
     border_color |-> b[26]]

(***************************************************************************)
(* Results: Ok(snapshot, value) or a panic at snapshot s.                  *)
(***************************************************************************)
Ok(s, v) == [tag |-> "Ok", snap |-> s, ret |-> v]

Panic(s) == [tag |-> "panic", snap |-> s, ret |-> 0]

(***************************************************************************)
(* Decoder: impl TryFrom<Vec<u8>> for Snapshot.                            *)
(***************************************************************************)
\* the retain left out: every bank of the list is filled from the trailing chunks
IsKept_All(x, m2) == TRUE

\* potential_banks.retain(|&x| x != mapping[2] as usize)
IsKept(x, m2) == x # m2

PotentialBanks(m2) == SelectSeq(<<0, 1, 3, 4, 6, 7>>, LAMBDA x : IsKept(x, m2))

\* index += MEM_16K
NextIndex(index) == index + MEM_16K

\* for bank in potential_banks { banks[bank].copy_from_slice(&bin[index..index + MEM_16K]); index += MEM_16K; }
RECURSIVE FillBanks(_, _, _, _)
FillBanks(banks, b, pbs, index) ==
    IF pbs = <<>> THEN [tag |-> "Ok", banks |-> banks]
    ELSE IF ~SliceOk(b, index, index + MEM_16K) THEN [tag |-> "panic", banks |-> banks]
    ELSE FillBanks([banks EXCEPT ![Head(pbs)] = Slice(b, index, index + MEM_16K)],
                   b, Tail(pbs), NextIndex(index))

\* the mask taken over two bits only
DecodedBank_TwoBits(x7ffd) == x7ffd % 4

\* mapping[2] = extension.as_ref().unwrap().x7ffd & 0x07
DecodedBank(x7ffd) == x7ffd % 8

\* the branch bin.len() > MEM_48K + HEADER_SIZE
TryFrom128(b) ==
    IF ~(EXT_OFFSET + 3 < VecLen(b)) THEN Panic(SnapshotDefault)
    ELSE
      LET extension == [pc |-> from_le_bytes(b[EXT_OFFSET], b[EXT_OFFSET + 1]),
                        x7ffd |-> b[EXT_OFFSET + 2],
                        tr_dos |-> b[EXT_OFFSET + 3]]
          mapping == [s \in 0..2 |->
                        IF s = 0 THEN 5 ELSE IF s = 1 THEN 2 ELSE DecodedBank(extension.x7ffd)]
          banks0 == [k \in 0..7 |-> ZeroBank]
          banks1 == [banks0 EXCEPT ![5] = Slice(b, HEADER_SIZE, HEADER_SIZE + MEM_16K)]
          banks2 == [banks1 EXCEPT ![2] = Slice(b, HEADER_SIZE + MEM_16K, HEADER_SIZE + 2 * MEM_16K)]
          banks3 == [banks2 EXCEPT ![mapping[2]] =
                        Slice(b, HEADER_SIZE + 2 * MEM_16K, HEADER_SIZE + 3 * MEM_16K)]
          filled == FillBanks(banks3, b, PotentialBanks(mapping[2]),
                              HEADER_SIZE + MEM_48K + EXTENSION_SIZE)
      IN IF filled.tag = "panic" THEN Panic(SnapshotDefault)
         ELSE Ok([snapshot_type |-> "Snapshot128",
                  header |-> ReadHeader(b),
                  extension |-> <<extension>>,
                  banks |-> filled.banks,
                  mapping |-> mapping], 0)

\* the else branch: three banks copied from the three 16 KiB slices after the header
TryFrom48(b) ==
    IF ~SliceOk(b, HEADER_SIZE, HEADER_SIZE + 3 * MEM_16K) THEN Panic(SnapshotDefault)
    ELSE Ok([snapshot_type |-> "Snapshot48",
             header |-> ReadHeader(b),
             extension |-> <<>>,
             banks |-> [k \in 0..2 |->
                          Slice(b, HEADER_SIZE + k * MEM_16K, HEADER_SIZE + (k + 1) * MEM_16K)],
             mapping |-> [s \in 0..2 |-> s]], 0)

\* the format test taken with >= in place of >
TryFrom_Ge(b) ==
    IF VecLen(b) >= MEM_48K + HEADER_SIZE THEN TryFrom128(b) ELSE TryFrom48(b)

\* fn try_from(bin: Vec<u8>) -> Result<Self, Self::Error>; no path returns Err
TryFrom(b) ==
    IF VecLen(b) > MEM_48K + HEADER_SIZE THEN TryFrom128(b) ELSE TryFrom48(b)

(***************************************************************************)
(* Memory model: impl Snapshot.                                            *)
(***************************************************************************)
\* self.banks[i]: an index outside the Vec panics
BankIndexOk(s, i) == i >= 0 /\ i < VecLen(s.banks)

\* the slot taken from one address bit only
SlotOf_OneBit(address) == (address \div MEM_16K) % 2

\* ((address >> 14) & 0x03) - 1
SlotOf(address) == ((address \div MEM_16K) % 4) - 1

\* address & 0x3FFF
OffsetOf(address) == address % MEM_16K

\* the write lands in banks[bank_index], the page table not consulted
poke_Unmapped(s, address, value) ==
    IF address < MEM_16K THEN Panic(s)
    ELSE LET bank_index == SlotOf(address)
         IN IF ~BankIndexOk(s, bank_index) THEN Panic(s)
            ELSE Ok([s EXCEPT !.banks[bank_index][OffsetOf(address)] = value], 0)

\* a write below 0x4000 is dropped without a fault
poke_IgnoresRom(s, address, value) ==
    IF address < MEM_16K THEN Ok(s, 0)
    ELSE LET bank_index == SlotOf(address)
             bank == s.mapping[bank_index]
         IN IF ~BankIndexOk(s, bank) THEN Panic(s)
            ELSE Ok([s EXCEPT !.banks[bank][OffsetOf(address)] = value], 0)

\* pub fn poke(&mut self, address: u16, value: u8)
poke(s, address, value) ==
    IF address < MEM_16K THEN Panic(s)
    ELSE LET bank_index == SlotOf(address)
             bank == s.mapping[bank_index]
         IN IF ~BankIndexOk(s, bank) THEN Panic(s)
            ELSE Ok([s EXCEPT !.banks[bank][OffsetOf(address)] = value], 0)

\* pub fn peek(&self, address: u16) -> u8
peek(s, address) ==
    IF address < MEM_16K THEN Ok(s, 255)
    ELSE LET bank_index == SlotOf(address)
             bank == s.mapping[bank_index]
         IN IF ~BankIndexOk(s, bank) THEN Panic(s)
            ELSE Ok(s, s.banks[bank][OffsetOf(address)])

\* pub fn peek_word(&self, address: u16) -> u16
peek_word(s, address) ==
    IF address = U16_MAX THEN Panic(s)
    ELSE LET low == peek(s, address)
             high == peek(s, address + 1)
         IN IF low.tag = "panic" \/ high.tag = "panic" THEN Panic(s)
            ELSE Ok(s, low.ret + 256 * high.ret)

\* pub fn poke_word(&mut self, address: u16, value: u16)
poke_word(s, address, value) ==
    IF address = U16_MAX THEN Panic(s)
    ELSE LET first == poke(s, address, value % 256)
         IN IF first.tag = "panic" THEN first
            ELSE poke(first.snap, address + 1, (value \div 256) % 256)

\* the whole value stored in the page table
PagedBank_NoMask(value) == value

\* value & 0x07
PagedBank(value) == value % 8

\* the page table updated, the extension's x7ffd left as it was
write_0x7ffd_NoStore(s, value) ==
    IF s.snapshot_type # "Snapshot128" THEN Panic(s)
    ELSE IF s.extension = <<>> THEN Panic(s)
    ELSE Ok([s EXCEPT !.mapping[2] = PagedBank(value)], 0)

\* pub fn write_0x7ffd(&mut self, value: u8)
write_0x7ffd(s, value) ==
    IF s.snapshot_type # "Snapshot128" THEN Panic(s)
    ELSE IF s.extension = <<>> THEN Panic(s)
    ELSE Ok([s EXCEPT !.extension[1].x7ffd = value,
                      !.mapping[2] = PagedBank(value)], 0)

\* pub fn bank_peek(&self, bank: usize, address: u16) -> u8
bank_peek(s, bank, address) ==
    IF bank >= VecLen(s.banks) THEN Panic(s)
    ELSE Ok(s, s.banks[bank][OffsetOf(address)])

\* pub fn bank_poke(&mut self, bank: usize, address: u16, value: u8)
bank_poke(s, bank, address, value) ==
    IF bank >= VecLen(s.banks) THEN Panic(s)
    ELSE Ok([s EXCEPT !.banks[bank][OffsetOf(address)] = value], 0)

\* the bank of the second byte: if address == 0xFFFF { if !wrap { bank += 1 } }
SecondBank(bank, address, wrap) ==
    IF address = U16_MAX /\ ~wrap THEN bank + 1 ELSE bank

\* the address of the second byte: if address == 0xFFFF { address = 0 } else { address += 1 }
SecondAddress(address) ==
    IF address = U16_MAX THEN 0 ELSE address + 1

\* pub fn bank_poke_word(&mut self, mut bank: usize, mut address: u16, value: u16, wrap: bool)
bank_poke_word(s, bank, address, value, wrap) ==
    IF bank >= VecLen(s.banks) THEN Panic(s)
    ELSE LET first == bank_poke(s, bank, address, value % 256)
         IN IF first.tag = "panic" THEN first
            ELSE bank_poke(first.snap, SecondBank(bank, address, wrap),
                           SecondAddress(address), (value \div 256) % 256)

\* pub fn bank_peek_word(&mut self, mut bank: usize, mut address: u16, wrap: bool) -> u16
bank_peek_word(s, bank, address, wrap) ==
    IF bank >= VecLen(s.banks) THEN Panic(s)
    ELSE LET low == bank_peek(s, bank, address)
             high == bank_peek(s, SecondBank(bank, address, wrap), SecondAddress(address))
         IN IF low.tag = "panic" \/ high.tag = "panic" THEN Panic(s)
            ELSE Ok(s, high.ret * 256 + low.ret)

(***************************************************************************)
(* Input buffers.                                                          *)
(***************************************************************************)
\* byte i of the k-th test pattern: all positions of a buffer differ
Pattern(k, i) == IF k = 0 THEN (7 * i + 3) % 256 ELSE (13 * i + 101) % 256

\* a buffer of len bytes whose paging-control byte, when present, is control
MkBin(len, k, control) ==
    [i \in 0..(len - 1) |-> IF i = EXT_OFFSET + 2 THEN control ELSE Pattern(k, i)]

\* paging-control bytes: every low-3-bit value, and values with high bits set
Controls == (0..7) \cup {13, 18, 255}

\* the longest layout the decoder reads (six trailing banks), and one byte more
MaxBinLen == HEADER_SIZE + MEM_48K + EXTENSION_SIZE + 6 * MEM_16K + 1

DecodeInputs == {MkBin(len, k, c) : len \in 0..MaxBinLen, k \in {0, 1}, c \in Controls}

\* bytes the decoder reads of a Larger buffer with paging-control byte control
NeededLen(control) ==
    HEADER_SIZE + MEM_48K + EXTENSION_SIZE + Len(PotentialBanks(control % 8)) * MEM_16K

(***************************************************************************)
(* Decoding step.                                                          *)
(***************************************************************************)
InitWith(inputs) ==
    /\ bin \in inputs
    /\ pc = "start"
    /\ result = "none"
    /\ snap = SnapshotDefault
    /\ hist = <<>>

Decode ==
    /\ pc = "start"
    /\ LET r == TryFrom(bin)
       IN /\ result' = r.tag
          /\ snap' = r.snap
          /\ pc' = IF r.tag = "Ok" THEN "ready" ELSE "aborted"
    /\ UNCHANGED <<bin, hist>>

InitDecode == InitWith(DecodeInputs)

NextDecode == Decode

SpecDecode == InitDecode /\ [][NextDecode]_vars

(***************************************************************************)
(* A snapshot in use: the caller applies memory-model operations to the    *)
(* decoded snapshot.  A panic aborts the caller; hist records each call    *)
(* with its arguments and outcome.                                         *)
(***************************************************************************)
\* buffers of the session: a Smaller buffer, Larger buffers whose control
\* byte selects bank 0, bank 5 and (with high bits set) bank 7, and a
\* truncated buffer
MemInputs ==
    {MkBin(HEADER_SIZE + MEM_48K, 0, 0), MkBin(HEADER_SIZE + MEM_16K, 0, 0)}
        \cup {MkBin(NeededLen(c), 0, c) : c \in {0, 5, 255}}

\* logical addresses: the ends of the unmapped window and of the three slots
Addrs == {0, MEM_16K - 1, MEM_16K, 2 * MEM_16K, 3 * MEM_16K, U16_MAX}

\* 16-bit accesses: below the mapped window, across two slots, the last two addresses
WordAddrs == {MEM_16K - 1, 2 * MEM_16K - 1, U16_MAX - 1, U16_MAX}

\* bank-relative addresses: both ends of a bank, and u16 values above 0x3FFF
BankAddrs == {0, MEM_16K - 1, U16_MAX}

\* bank arguments: every bank of a Larger snapshot, and one past the last
BankArgs == 0..8

\* the last bank of a Smaller and of a Larger snapshot, and one past it
WordBankArgs == {2, 7, 8}

Values == {0, 165}

Words == {48879}

PagingValues == (0..7) \cup {13, 255}

Entry(op, bank, address, value, wrap, r) ==
    [op |-> op, bank |-> bank, address |-> address, value |-> value,
     wrap |-> wrap, tag |-> r.tag, ret |-> r.ret]

\* the caller holds a snapshot and makes another call
CanCall == pc = "ready" /\ Len(hist) < MaxOps

Apply(entry, r) ==
    /\ CanCall
    /\ snap' = r.snap
    /\ hist' = Append(hist, entry)
    /\ pc' = IF r.tag = "Ok" THEN "ready" ELSE "aborted"
    /\ UNCHANGED <<bin, result>>

Poke ==
    \E a \in Addrs, v \in Values :
        LET r == poke(snap, a, v) IN Apply(Entry("poke", 0, a, v, FALSE, r), r)

Peek ==
    \E a \in {0, 3 * MEM_16K, U16_MAX} :
        LET r == peek(snap, a) IN Apply(Entry("peek", 0, a, 0, FALSE, r), r)

PokeWord ==
    \E a \in WordAddrs, w \in Words :
        LET r == poke_word(snap, a, w) IN Apply(Entry("poke_word", 0, a, w, FALSE, r), r)

PeekWord ==
    \E a \in {3 * MEM_16K - 1, U16_MAX} :
        LET r == peek_word(snap, a) IN Apply(Entry("peek_word", 0, a, 0, FALSE, r), r)

Write0x7ffd ==
    \E v \in PagingValues :
        LET r == write_0x7ffd(snap, v) IN Apply(Entry("write_0x7ffd", 0, 0, v, FALSE, r), r)

BankPeek ==
    \E b \in {0, 8}, a \in {MEM_16K - 1} :
        LET r == bank_peek(snap, b, a) IN Apply(Entry("bank_peek", b, a, 0, FALSE, r), r)

BankPoke ==
    \E b \in BankArgs : \E a \in (IF b = 5 THEN {0, U16_MAX} ELSE {0}), v \in {165} :
        LET r == bank_poke(snap, b, a, v) IN Apply(Entry("bank_poke", b, a, v, FALSE, r), r)

BankPokeWord ==
    \E b \in WordBankArgs, a \in BankAddrs, w \in Words, wrap \in BOOLEAN :
        LET r == bank_poke_word(snap, b, a, w, wrap)
        IN Apply(Entry("bank_poke_word", b, a, w, wrap, r), r)

BankPeekWord ==
    \E b \in {7}, a \in {MEM_16K - 1, U16_MAX}, wrap \in BOOLEAN :
        LET r == bank_peek_word(snap, b, a, wrap)
        IN Apply(Entry("bank_peek_word", b, a, 0, wrap, r), r)

Init == InitWith(MemInputs)

Next ==
    \/ Decode
    \/ Poke
    \/ Peek
    \/ PokeWord
    \/ PeekWord
    \/ Write0x7ffd
    \/ BankPeek
    \/ BankPoke
    \/ BankPokeWord
    \/ BankPeekWord

Spec == Init /\ [][Next]_vars

(***************************************************************************)
(* Claims about the decoder, checked under SpecDecode.                     *)
(***************************************************************************)
Decoded == result # "none"

BinLen == VecLen(bin)

\* the paging-control byte of the buffer (offset 49181 of the source)
Control == bin[EXT_OFFSET + 2]

\* the n-th 16 KiB chunk following the header
Chunk(n) == Slice(bin, HEADER_SIZE + n * MEM_16K, HEADER_SIZE + (n + 1) * MEM_16K)

\* the n-th 16 KiB chunk following the extension record
TrailChunk(n) ==
    Slice(bin, EXT_OFFSET + EXTENSION_SIZE + n * MEM_16K,
               EXT_OFFSET + EXTENSION_SIZE + (n + 1) * MEM_16K)

\* the Larger-format layout of section 6: header, 48 KiB, extension, 5 banks
LayoutLen == HEADER_SIZE + MEM_48K + EXTENSION_SIZE + 5 * MEM_16K

\* the banks of {0,1,3,4,6,7} other than c, in ascending order
RECURSIVE Ascending(_)
Ascending(S) ==
    IF S = {} THEN <<>>
    ELSE LET m == CHOOSE x \in S : \A y \in S : x <= y
         IN <<m>> \o Ascending(S \ {m})

FreeBanks(c) == Ascending({0, 1, 3, 4, 6, 7} \ {c})

LargerShape ==
    /\ result = "Ok"
    /\ snap.snapshot_type = "Snapshot128"
    /\ DOMAIN snap.banks = 0..7
    /\ \A k \in 0..7 : DOMAIN snap.banks[k] = 0..(MEM_16K - 1)
    /\ Len(snap.extension) = 1
    /\ snap.mapping = [s \in 0..2 |-> IF s = 0 THEN 5 ELSE IF s = 1 THEN 2 ELSE Control % 8]

C3_BankContents ==
    (result = "Ok" /\ snap.snapshot_type = "Snapshot128") =>
        LET c == Control % 8
            free == FreeBanks(c)
        IN /\ (c # 5 => snap.banks[5] = Chunk(0))
           /\ (c # 2 => snap.banks[2] = Chunk(1))
           /\ snap.banks[c] = Chunk(2)
           /\ \A n \in 1..Len(free) : snap.banks[free[n]] = TrailChunk(n - 1)

\* C3 witness: a Larger buffer whose control byte selects bank 5 has been decoded
C3_Witness ==
    /\ result = "Ok"
    /\ snap.snapshot_type = "Snapshot128"
    /\ Control % 8 = 5
    /\ snap.banks[5] = Chunk(2)
    /\ snap.banks[7] = TrailChunk(5)

\* C3 as stated: bank 5 holds the first chunk and bank 2 the second for every
\* value of the control byte
C3_Original ==
    (result = "Ok" /\ snap.snapshot_type = "Snapshot128") =>
        LET c == Control % 8
            free == FreeBanks(c)
        IN /\ snap.banks[5] = Chunk(0)
           /\ snap.banks[2] = Chunk(1)
           /\ snap.banks[c] = Chunk(2)
           /\ \A n \in 1..Len(free) : snap.banks[free[n]] = TrailChunk(n - 1)

\* C6: decoding a buffer shorter than header + 48 KiB returns a DecodeError
\* value: it does not panic and yields no Snapshot
C6_TruncatedIsError ==
    (Decoded /\ BinLen < HEADER_SIZE + MEM_48K) => result = "Err"

\* C10: a buffer of exactly header + 48 KiB decodes to a Smaller snapshot with
\* no extension, 3 banks of 16 KiB, page table [0,1,2], bank i the i-th chunk
\* after the header, so that 0x4000-0xFFFF reads the chunks in file order
C10_SmallerDecodes ==
    (Decoded /\ BinLen = HEADER_SIZE + MEM_48K) =>
        /\ result = "Ok"
        /\ snap.snapshot_type = "Snapshot48"
        /\ snap.extension = <<>>
        /\ DOMAIN snap.banks = 0..2
        /\ snap.mapping = [s \in 0..2 |-> s]
        /\ \A k \in 0..2 : snap.banks[k] = Chunk(k)
        /\ \A a \in MEM_16K..U16_MAX :
              peek(snap, a) = Ok(snap, bin[HEADER_SIZE + (a - MEM_16K)])

\* C10 witness: a buffer of exactly header + 48 KiB has been decoded
C10_Witness ==
    /\ result = "Ok"
    /\ BinLen = HEADER_SIZE + MEM_48K
    /\ snap.banks[2][MEM_16K - 1] = bin[HEADER_SIZE + MEM_48K - 1]

(***************************************************************************)
(* Claims about the memory model, checked under Spec.                      *)
(***************************************************************************)
NBanks == VecLen(snap.banks)

Larger == result = "Ok" /\ snap.snapshot_type = "Snapshot128"

\* the last call recorded, when there is one
HasLast == Len(hist) > 0

Last == hist[Len(hist)]

\* the last two calls were op1 then op2, both without a fault
LastTwo(op1, op2) ==
    /\ Len(hist) >= 2
    /\ hist[Len(hist) - 1].op = op1
    /\ hist[Len(hist) - 1].tag = "Ok"
    /\ hist[Len(hist)].op = op2
    /\ hist[Len(hist)].tag = "Ok"

Prev == hist[Len(hist) - 1]

\* the page-table slot the claim names for an address of 0x4000-0xFFFF
ClaimedSlot(a) == IF a >= 3 * MEM_16K THEN 2 ELSE IF a >= 2 * MEM_16K THEN 1 ELSE 0

\* C1: after decode and after any sequence of logical and bank writes and
\* paging-control writes, logical_peek(a) equals
\* bank_peek(page_table[slot], a & 0x3FFF) for every a in 0x4000-0xFFFF, slot 0
\* for 0x4000-0x7FFF, slot 1 for 0x8000-0xBFFF and slot 2 for 0xC000-0xFFFF
C1_ViewsAgree ==
    result = "Ok" =>
        \A a \in MEM_16K..U16_MAX :
            LET logical == peek(snap, a)
                banked == bank_peek(snap, snap.mapping[ClaimedSlot(a)], a % MEM_16K)
            IN /\ logical.tag = "Ok"
               /\ banked.tag = "Ok"
               /\ logical.ret = banked.ret

\* C1 witness: the paging control was set to 3 and a byte written at 0xFFFF
C1_Witness ==
    /\ LastTwo("write_0x7ffd", "poke")
    /\ Prev.value = 3
    /\ Last.address = U16_MAX
    /\ Last.value = 165
    /\ snap.banks[3][MEM_16K - 1] = 165

\* C4: a byte written through either view is read back through both:
\* logical_poke(a, v) then logical_peek(a) gives v for a in 0x4000-0xFFFF; on a
\* Larger snapshot set_paging_control(b) then logical_poke(0xC000 + o, v) makes
\* bank_peek(b, o) give v, and bank_poke(b, o, v) then set_paging_control(b)
\* makes logical_peek(0xC000 + o) give v, for every bank b and offset o
C4_WriteReadBack ==
    /\ (HasLast /\ Last.op = "poke" /\ Last.address >= MEM_16K) =>
            /\ Last.tag = "Ok"
            /\ peek(snap, Last.address) = Ok(snap, Last.value)
    /\ (Larger /\ LastTwo("write_0x7ffd", "poke") /\ Prev.value \in 0..7
               /\ Last.address >= 3 * MEM_16K) =>
            bank_peek(snap, Prev.value, Last.address - 3 * MEM_16K) = Ok(snap, Last.value)
    /\ (Larger /\ LastTwo("bank_poke", "write_0x7ffd") /\ Last.value = Prev.bank
               /\ Prev.address < MEM_16K) =>
            peek(snap, 3 * MEM_16K + Prev.address) = Ok(snap, Prev.value)
    /\ CanCall =>
            \A a \in MEM_16K..U16_MAX, v \in Values :
                LET w == poke(snap, a, v)
                IN w.tag = "Ok" /\ peek(w.snap, a).ret = v
    /\ (Larger /\ CanCall) =>
            \A b \in 0..7, o \in 0..(MEM_16K - 1), v \in Values :
                LET paged == write_0x7ffd(snap, b).snap
                    logical == poke(paged, 3 * MEM_16K + o, v).snap
                    banked == write_0x7ffd(bank_poke(snap, b, o, v).snap, b).snap
                IN /\ bank_peek(logical, b, o).ret = v
                   /\ peek(banked, 3 * MEM_16K + o).ret = v

\* C4 witness: bank 6 was paged in and a byte written at 0xC000
C4_Witness ==
    /\ Larger
    /\ LastTwo("write_0x7ffd", "poke")
    /\ Prev.value = 6
    /\ Last.address = 3 * MEM_16K
    /\ Last.value = 165
    /\ bank_peek(snap, 6, 0).ret = 165

\* C5: bank_poke16 and bank_peek16 on a valid bank b access the low byte at
\* addr; when addr == 0x3FFF the high byte is at offset 0 of bank b (wrap) or
\* of bank b + 1 (no wrap); for every other addr the high byte is at addr + 1
\* of bank b; the value is little-endian
C5_WordAccess ==
    (HasLast /\ Last.op \in {"bank_poke_word", "bank_peek_word"} /\ Last.bank < NBanks) =>
        LET high_bank == IF Last.address = MEM_16K - 1 /\ ~Last.wrap
                         THEN Last.bank + 1 ELSE Last.bank
            high_offset == IF Last.address = MEM_16K - 1 THEN 0
                           ELSE (Last.address + 1) % MEM_16K
            low_offset == Last.address % MEM_16K
            word == IF Last.op = "bank_poke_word" THEN Last.value ELSE Last.ret
        IN high_bank < NBanks =>
            /\ Last.tag = "Ok"
            /\ snap.banks[Last.bank][low_offset] = word % 256
            /\ snap.banks[high_bank][high_offset] = word \div 256

\* C7: in every state of a decoded snapshot each page-table slot holds an
\* index below the number of banks, so logical accesses at 0x4000 and above
\* never index outside the bank sequence
C7_PageTableValid ==
    result = "Ok" =>
        /\ NBanks = (IF snap.snapshot_type = "Snapshot128" THEN 8 ELSE 3)
        /\ \A s \in 0..2 : snap.mapping[s] >= 0 /\ snap.mapping[s] < NBanks
        /\ \A a \in MEM_16K..U16_MAX :
              peek(snap, a).tag = "Ok" /\ poke(snap, a, 0).tag = "Ok"
        /\ (CanCall /\ snap.snapshot_type = "Snapshot128") =>
              \A v \in U8 : write_0x7ffd(snap, v).snap.mapping[2] < NBanks

\* C7 witness: the paging control was written with 255 on a Larger snapshot
C7_Witness ==
    /\ Larger
    /\ HasLast
    /\ Last.op = "write_0x7ffd"
    /\ Last.value = 255
    /\ Last.tag = "Ok"
    /\ snap.mapping[2] = 7

\* one call of the memory model, from snap to snap'
C8_Step ==
    hist' # hist =>
        LET e == hist'[Len(hist')]
        IN IF e.op = "write_0x7ffd"
           THEN IF snap.snapshot_type = "Snapshot128"
                THEN /\ e.tag = "Ok"
                     /\ snap'.extension[1].x7ffd = e.value
                     /\ snap'.mapping[2] = e.value % 8
                     /\ snap'.mapping[0] = snap.mapping[0]
                     /\ snap'.mapping[1] = snap.mapping[1]
                     /\ snap'.banks = snap.banks
                     /\ snap'.header = snap.header
                     /\ snap'.extension[1].pc = snap.extension[1].pc
                     /\ snap'.extension[1].tr_dos = snap.extension[1].tr_dos
                     /\ snap'.snapshot_type = snap.snapshot_type
                ELSE e.tag = "panic" /\ snap' = snap
           ELSE snap'.mapping = snap.mapping

\* slots 0 and 1 as decode set them
C8_FixedSlots ==
    result = "Ok" =>
        /\ snap.mapping[0] = (IF snap.snapshot_type = "Snapshot128" THEN 5 ELSE 0)
        /\ snap.mapping[1] = (IF snap.snapshot_type = "Snapshot128" THEN 2 ELSE 1)

\* C8: set_paging_control(value) on a Larger snapshot stores value in the
\* extension and sets slot 2 to value & 0x07, leaving slots 0 and 1, the
\* banks, the registers and the rest of the extension unchanged; on a Smaller
\* snapshot it faults and changes nothing; no other operation changes the
\* page table, so slots 0 and 1 keep their decode-time values
C8_PagingFrame == [][C8_Step /\ C8_FixedSlots']_vars

\* C8 witness: the paging control was written with 13 on a Larger snapshot
C8_Witness ==
    /\ Larger
    /\ HasLast
    /\ Last.op = "write_0x7ffd"
    /\ Last.value = 13
    /\ Last.tag = "Ok"
    /\ snap.extension[1].x7ffd = 13
    /\ snap.mapping[2] = 5

\* C9: for every address below 0x4000, in every state, logical_peek returns
\* 0xFF and logical_poke faults without modifying a bank byte or a page-table
\* slot
C9_BelowMapped ==
    /\ result = "Ok" =>
          \A a \in 0..(MEM_16K - 1) :
              /\ peek(snap, a) = Ok(snap, 255)
              /\ \A v \in Values : poke(snap, a, v) = Panic(snap)
    /\ \A n \in 1..Len(hist) :
          /\ (hist[n].op = "peek" /\ hist[n].address < MEM_16K) =>
                hist[n].tag = "Ok" /\ hist[n].ret = 255
          /\ (hist[n].op = "poke" /\ hist[n].address < MEM_16K) =>
                hist[n].tag = "panic" /\ pc = "aborted"

\* C9 witness: a write at 0x3FFF faulted after a paging-control write
C9_Witness ==
    /\ Len(hist) = 2
    /\ hist[1].op = "write_0x7ffd"
    /\ Last.op = "poke"
    /\ Last.address = MEM_16K - 1
    /\ Last.tag = "panic"
    /\ pc = "aborted"

\* one call that faulted left the snapshot as it was; a 16-bit bank write
\* without wrap whose second byte goes to bank + 1, one past the last bank,
\* faulted with the low byte unwritten; a faulting poke_word wrote no byte
C11_Step ==
    (hist' # hist /\ hist'[Len(hist')].tag = "panic") =>
        LET e == hist'[Len(hist')]
        IN /\ snap' = snap
           /\ (e.op = "bank_poke_word" /\ ~e.wrap /\ e.bank + 1 = VecLen(snap.banks)
                 /\ SecondBank(e.bank, e.address, e.wrap) = e.bank + 1) =>
                 snap'.banks[e.bank][OffsetOf(e.address)]
                     = snap.banks[e.bank][OffsetOf(e.address)]
           /\ e.op = "poke_word" => snap'.banks = snap.banks

\* C11: every memory-model operation that faults leaves the Snapshot exactly
\* as it was before the call: a 16-bit bank write with wrap = false whose high
\* byte would land in bank + 1 = number of banks faults without having written
\* the low byte, and a faulting logical_poke16 writes neither byte
C11_FaultLeavesSnapshot == [][C11_Step]_vars

====
